---- MODULE Spec2Model ----
(***************************************************************************)
(* A model of ha-geo-ip (src/src/main.rs): one run of main() fetches the   *)
(* primary geo-IP feed with a conditional request, verifies a fresh body   *)
(* against the digest companion, saves it as the local snapshot, filters   *)
(* it by country code into the output artifact and appends the CIDR blocks *)
(* of the requested ASNs.                                                  *)
(*                                                                         *)
(* Text is a sequence of one-character strings.  A file is a record        *)
(* [exists, data].  BAD stands for a byte that is not valid UTF-8.         *)
(***************************************************************************)
EXTENDS Integers, Sequences, FiniteSets, TLC

\* ------------------------------------------------------------------ bounds
\* lines of the regular kinds in a feed body
MaxFeedLines == 2
\* --country and --asn values on one command line, together
MaxArgs == 3

\* -------------------------------------------------------------- characters
NL == "\n"
SP == " "
BAD == "#"
Whitespace == {SP, NL, "\t", "\r"}

Last(s) == s[Len(s)]
Front(s) == SubSeq(s, 1, Len(s) - 1)

\* char::is_whitespace, as split_whitespace and trim use it
IsWhitespace(c) == c \in Whitespace

\* str::to_uppercase, character by character
UpperChar(c) ==
  CASE c = "d" -> "D"
    [] c = "s" -> "S"
    [] OTHER -> c

ToUppercase(s) == [k \in 1..Len(s) |-> UpperChar(s[k])]

\* str::split_whitespace: the maximal runs of non-whitespace characters
RECURSIVE SplitWs(_, _, _)
SplitWs(s, cur, acc) ==
  IF s = <<>> THEN (IF cur = <<>> THEN acc ELSE Append(acc, cur))
  ELSE IF IsWhitespace(Head(s))
       THEN SplitWs(Tail(s), <<>>, IF cur = <<>> THEN acc ELSE Append(acc, cur))
       ELSE SplitWs(Tail(s), Append(cur, Head(s)), acc)

SplitWhitespace(s) == SplitWs(s, <<>>, <<>>)

\* a line without its terminator: "\n", or "\r\n"
StripCr(l) == IF l # <<>> /\ Last(l) = "\r" THEN Front(l) ELSE l

\* str::lines / BufRead::lines: split at "\n"; a final line with no
\* terminator counts when it is not empty
RECURSIVE SplitLines(_, _, _)
SplitLines(s, cur, acc) ==
  IF s = <<>> THEN (IF cur = <<>> THEN acc ELSE Append(acc, cur))
  ELSE IF Head(s) = NL
       THEN SplitLines(Tail(s), <<>>, Append(acc, StripCr(cur)))
       ELSE SplitLines(Tail(s), Append(cur, Head(s)), acc)

Lines(s) == SplitLines(s, <<>>, <<>>)

\* str::trim
RECURSIVE TrimStart(_)
TrimStart(s) ==
  IF s # <<>> /\ IsWhitespace(Head(s)) THEN TrimStart(Tail(s)) ELSE s

RECURSIVE TrimEnd(_)
TrimEnd(s) ==
  IF s # <<>> /\ IsWhitespace(Last(s)) THEN TrimEnd(Front(s)) ELSE s

Trim(s) == TrimEnd(TrimStart(s))

\* [String]::join("\n")
RECURSIVE JoinNl(_)
JoinNl(ls) ==
  IF ls = <<>> THEN <<>>
  ELSE IF Len(ls) = 1 THEN ls[1]
  ELSE ls[1] \o <<NL>> \o JoinNl(Tail(ls))

\* a byte string is valid UTF-8 when it holds no BAD byte
ValidUtf8(s) == \A k \in 1..Len(s) : s[k] # BAD

\* ------------------------------------------------------------------ digest
\* The lowercase hex digits format!("{:x}", ..) prints
HexDigits == <<"0", "1", "2", "3", "4", "5", "6", "7", "8", "9",
               "a", "b", "c", "d", "e", "f">>

\* the value of one byte
ByteOf(c) ==
  CASE c = NL -> 10
    [] c = SP -> 32
    [] c = BAD -> 255
    [] c = "1" -> 49
    [] c = "2" -> 50
    [] c = "3" -> 51
    [] c = "4" -> 52
    [] c = "5" -> 53
    [] c = "D" -> 68
    [] c = "S" -> 83
    [] c = "d" -> 100
    [] OTHER -> 63

\* Sha256::update over the bytes, shortened to a one-byte digest: the model
\* keeps that the digest is a function of every byte in order, not its width
RECURSIVE HashBytes(_, _)
HashBytes(s, h) ==
  IF s = <<>> THEN h ELSE HashBytes(Tail(s), (h * 31 + ByteOf(Head(s)) + 7) % 256)

\* format!("{:x}", hasher.finalize())
Sha256Hex(bytes) ==
  LET h == HashBytes(bytes, 0)
  IN  <<HexDigits[(h \div 16) + 1], HexDigits[(h % 16) + 1]>>

\* sha256_content.split_whitespace().next().unwrap_or("")
ExpectedHash(text) ==
  LET tokens == SplitWhitespace(text)
  IN  IF tokens = <<>> THEN <<>> ELSE tokens[1]

\* ------------------------------------------------------------------- files
Missing == [exists |-> FALSE, data |-> <<>>]
File(bytes) == [exists |-> TRUE, data |-> bytes]

\* fs::read_to_string(path).unwrap_or_else(|_| String::new()): a missing
\* file, or one that is not UTF-8, reads as the empty string
ReadToStringOrEmpty(f) ==
  IF f.exists /\ ValidUtf8(f.data) THEN f.data ELSE <<>>

\* ------------------------------------------------------------------ filter
\* country_codes: every argument upper-cased, in argument order
UpperAll(args) == [k \in 1..Len(args) |-> ToUppercase(args[k])]

InSeq(x, s) == \E k \in 1..Len(s) : s[k] = x

\* *country_counts.entry(code).or_insert(0) += 1
Bump(counts, code) ==
  IF code \in DOMAIN counts
  THEN [counts EXCEPT ![code] = @ + 1]
  ELSE [c \in DOMAIN counts \cup {code} |-> IF c = code THEN 1 ELSE counts[c]]

EmptyCounts == [c \in {} |-> 0]

\* the loop over reader.lines(): a line of exactly two columns whose second
\* column is one of the codes adds its first column and counts its code
RECURSIVE GrepLines(_, _, _)
GrepLines(lines, codes, acc) ==
  IF lines = <<>> THEN acc
  ELSE LET columns == SplitWhitespace(Head(lines))
           hit == Len(columns) = 2 /\ InSeq(columns[2], codes)
       IN  GrepLines(Tail(lines), codes,
             IF hit
             THEN [filtered_lines |-> Append(acc.filtered_lines, columns[1]),
                   country_counts |-> Bump(acc.country_counts, columns[2])]
             ELSE acc)

\* Grep with the feed's codes matched whatever their case
Grep_CaseBlind(content, codes) ==
  GrepLines(Lines(ToUppercase(content)), codes,
            [filtered_lines |-> <<>>, country_counts |-> EmptyCounts])

Grep(content, codes) ==
  GrepLines(Lines(content), codes,
            [filtered_lines |-> <<>>, country_counts |-> EmptyCounts])

\* country_counts.get(code).unwrap_or(&0)
GetOrZero(counts, key) == IF key \in DOMAIN counts THEN counts[key] ELSE 0

\* SummaryRows with the keys that have no count left out
SummaryRows_OmitAbsent(keys, counts) ==
  LET present == SelectSeq(keys, LAMBDA key : key \in DOMAIN counts)
  IN  [k \in 1..Len(present) |-> <<present[k], counts[present[k]]>>]

\* the summary loop: one row per entry of the code list, in list order
SummaryRows(keys, counts) ==
  [k \in 1..Len(keys) |-> <<keys[k], GetOrZero(counts, keys[k])>>]

RECURSIVE SumRows(_)
SumRows(rows) == IF rows = <<>> THEN 0 ELSE Head(rows)[2] + SumRows(Tail(rows))

\* --------------------------------------------------------------------- ASN
\* TrimmedNonEmpty with the lines of a target taken last to first
TrimmedNonEmpty_Reversed(lines) ==
  LET kept == SelectSeq(lines, LAMBDA l : Trim(l) # <<>>)
  IN  [k \in 1..Len(kept) |-> Trim(kept[Len(kept) + 1 - k])]

\* TrimmedNonEmpty with the blank lines kept, as empty lines
TrimmedNonEmpty_KeepBlank(lines) == [k \in 1..Len(lines) |-> Trim(lines[k])]

\* the inner loop over content.lines(): the trimmed lines that are not empty
RECURSIVE TrimmedNonEmpty(_)
TrimmedNonEmpty(lines) ==
  IF lines = <<>> THEN <<>>
  ELSE LET line == Trim(Head(lines))
       IN  (IF line # <<>> THEN <<line>> ELSE <<>>) \o TrimmedNonEmpty(Tail(lines))

\* asn_counts.insert(asn, count)
Insert(counts, key, n) ==
  [c \in DOMAIN counts \cup {key} |-> IF c = key THEN n ELSE counts[c]]

\* Appended with a separator put before the blocks in every case
Appended_AlwaysSeparator(existing, blocks) == existing \o <<NL>> \o JoinNl(blocks)

\* Appended with the content read left out of what is written back
Appended_BlocksOnly(existing, blocks) == JoinNl(blocks)

\* what is written back: the content read, a separator when that content is
\* not empty and does not end in one, then the blocks joined by separators
Appended(existing, blocks) ==
  (IF existing # <<>> /\ Last(existing) # NL THEN existing \o <<NL>> ELSE existing)
    \o JoinNl(blocks)

\* ------------------------------------------------------------------ inputs
SeqsUpTo(S, n) == UNION {[1..k -> S] : k \in 0..n}

\* lines a feed body is made of: a record for D, and a record for S amid
\* surplus whitespace
FeedLineSet ==
  { <<"1", SP, "D">>, <<SP, "2", SP, SP, "S">> }

\* bodies of other kinds: a blank line between two records and a separator
\* after the last; bytes that are not UTF-8, alone and after a record; a
\* record whose code is in lower case and a line of three columns, each
\* before a record for D
OddFeeds ==
  { <<"1", SP, "D", NL, NL, "2", SP, "S", NL>>,
    <<BAD>>,
    <<"1", SP, "D", NL, BAD, NL>>,
    <<"3", SP, "d", NL, "1", SP, "D", NL>>,
    <<"4", SP, "D", SP, "5", NL, "1", SP, "D">> }

Feeds == {JoinNl(ls) : ls \in SeqsUpTo(FeedLineSet, MaxFeedLines)} \cup OddFeeds

\* --country arguments, as typed
CountryArgSet == { <<"D">>, <<"d">>, <<"S">> }
CountryArgs == SeqsUpTo(CountryArgSet, MaxArgs) \ {<<>>}

\* --asn arguments; every source answers alike whatever its number, so the
\* lists are taken up to renaming the numbers: a list starts with 7
AsnArgSet == { <<"7">>, <<"8">> }
AsnArgs == {a \in SeqsUpTo(AsnArgSet, MaxArgs - 1) : a = <<>> \/ a[1] = <<"7">>}

\* snapshot and artifact files a run may find
OldSnapshots ==
  {Missing, File(<<"1", SP, "D", NL, "2", SP, "S", NL>>), File(<<BAD>>)}
OldArtifacts == {Missing, File(<<"9">>)}

\* what the primary feed answers: the request fails, or a status arrives
\* and, for 200, the body is received or fails to arrive
PrimaryResponsesOf(bodies) ==
  { [send_ok |-> FALSE, status |-> 0, body_ok |-> FALSE, body |-> <<>>] }
  \cup { [send_ok |-> TRUE, status |-> st, body_ok |-> TRUE, body |-> <<>>] : st \in {304, 404} }
  \cup { [send_ok |-> TRUE, status |-> 200, body_ok |-> FALSE, body |-> <<>>] }
  \cup { [send_ok |-> TRUE, status |-> 200, body_ok |-> TRUE, body |-> b] : b \in bodies }

PrimaryResponses == PrimaryResponsesOf(Feeds)

\* digest companion texts for a body: its digest alone; its digest after
\* leading whitespace and before a file name; the digest of other bytes;
\* whitespace only
DigestTexts(body) ==
  { Sha256Hex(body),
    <<NL, SP>> \o Sha256Hex(body) \o <<SP, SP, "f", NL>>,
    Sha256Hex(body \o <<"1">>) \o <<NL>>,
    <<SP, NL>> }

DigestResponses(body) ==
  { [send_ok |-> FALSE, status |-> 0, text_ok |-> FALSE, text |-> <<>>] }
  \cup { [send_ok |-> TRUE, status |-> st, text_ok |-> FALSE, text |-> <<>>] : st \in {200, 500} }
  \cup { [send_ok |-> TRUE, status |-> st, text_ok |-> TRUE, text |-> t] :
           st \in {200, 500}, t \in DigestTexts(body) }

\* what an ASN source answers
AsnBodies == { <<SP, NL>>, <<"9">>, <<"8", NL, NL, SP, "9", SP, NL>> }

AsnResponses ==
  { [send_ok |-> FALSE, success |-> FALSE, text_ok |-> FALSE, text |-> <<>>] }
  \cup { [send_ok |-> TRUE, success |-> FALSE, text_ok |-> FALSE, text |-> <<>>] }
  \cup { [send_ok |-> TRUE, success |-> TRUE, text_ok |-> FALSE, text |-> <<>>] }
  \cup { [send_ok |-> TRUE, success |-> TRUE, text_ok |-> TRUE, text |-> t] : t \in AsnBodies }

\* ------------------------------------------------------------------- state
VARIABLES
  country_args,      \* args.country_codes
  asn_numbers,       \* args.asn_numbers
  snapshot,          \* the file LOCAL_FILE_PATH
  artifact,          \* the file LOCAL_FILE_CIDR
  pc,                \* where main() is
  outcome,           \* "running", "ok" (main returned Ok), "failed"
  if_modified_since, \* whether the primary request carried the header
  primary_status,    \* response.status() of the primary request, 0 before
  content,           \* the resolved feed bytes
  sha256_status,     \* the digest companion's status, 0 when none arrived
  sha256_content,
  expected_hash,
  calculated_hash,
  summary,           \* the rows of the country summary, as printed
  total,             \* "Total matching blocks"
  next_asn,          \* how many entries of asn_numbers the loop has taken
  all_asn_blocks,
  asn_counts,
  existing_content,  \* the artifact as process_asn_data read it
  asn_summary,       \* the rows of the ASN summary, as printed
  asn_responses,     \* history: the answer each ASN request got
  log,               \* history: requests sent and files written, in order
  prev               \* history: how the run before this one ended

vars == <<country_args, asn_numbers, snapshot, artifact, pc, outcome,
          if_modified_since, primary_status, content, sha256_status,
          sha256_content, expected_hash, calculated_hash, summary, total,
          next_asn, all_asn_blocks, asn_counts, existing_content,
          asn_summary, asn_responses, log, prev>>

args == <<country_args, asn_numbers>>
files == <<snapshot, artifact>>
primary_locals == <<if_modified_since, primary_status, content>>
digest_locals == <<sha256_status, sha256_content, expected_hash, calculated_hash>>
grep_locals == <<summary, total>>
asn_locals == <<next_asn, all_asn_blocks, asn_counts, existing_content,
                asn_summary, asn_responses>>

\* lines 32-36
country_codes == UpperAll(country_args)

NoRun == [ran |-> FALSE, outcome |-> "none", artifact |-> Missing,
          asn_responses |-> <<>>]

\* the locals of a run that has not started
FreshRun ==
  /\ pc = "fetch"
  /\ outcome = "running"
  /\ if_modified_since = FALSE
  /\ primary_status = 0
  /\ content = <<>>
  /\ sha256_status = 0
  /\ sha256_content = <<>>
  /\ expected_hash = <<>>
  /\ calculated_hash = <<>>
  /\ summary = <<>>
  /\ total = 0
  /\ next_asn = 0
  /\ all_asn_blocks = <<>>
  /\ asn_counts = EmptyCounts
  /\ existing_content = <<>>
  /\ asn_summary = <<>>
  /\ asn_responses = <<>>
  /\ log = <<>>

Init ==
  /\ country_args \in CountryArgs
  /\ asn_numbers \in AsnArgs
  /\ Len(country_args) + Len(asn_numbers) <= MaxArgs
  /\ snapshot \in OldSnapshots
  /\ artifact \in OldArtifacts
  /\ prev = NoRun
  /\ FreshRun

\* main() ends: by returning Err or by process::exit(1)
Fail ==
  /\ pc' = "done"
  /\ outcome' = "failed"

\* StatusArm with every status but 200 taken for "not modified"
StatusArm_NoErrorArm(status) ==
  IF status = 200 THEN "OK" ELSE "NOT_MODIFIED"

\* the arm of `match response.status()` a status takes
StatusArm(status) ==
  CASE status = 200 -> "OK"
    [] status = 304 -> "NOT_MODIFIED"
    [] OTHER -> "_"

\* ReadSnapshot with the snapshot read as text and its end trimmed
ReadSnapshot_Trimmed(f) == TrimEnd(f.data)

\* fs::read(LOCAL_FILE_PATH)
ReadSnapshot(f) == f.data

\* SnapshotReads with a missing snapshot read as an empty one
SnapshotReads_MissingReadsEmpty(f) == {TRUE, FALSE}

\* whether fs::read(LOCAL_FILE_PATH)? returns Ok: never for a file that is
\* not there; for one that is, it may yet fail (the file cannot be read)
SnapshotReads(f) == IF f.exists THEN {TRUE, FALSE} ELSE {FALSE}

\* lines 41-58 and 82-90: the conditional request and the match on its
\* status, from the answers in `responses`
FetchPrimaryFrom(responses) ==
  /\ pc = "fetch"
  /\ \E r \in responses :
       /\ if_modified_since' = snapshot.exists
       /\ log' = Append(log, "GET primary")
       /\ primary_status' = r.status
       /\ IF ~r.send_ok
          THEN /\ Fail
               /\ content' = content
          ELSE IF StatusArm(r.status) = "OK"
          THEN IF r.body_ok
               THEN /\ content' = r.body
                    /\ pc' = "digest"
                    /\ outcome' = outcome
               ELSE /\ Fail
                    /\ content' = content
          ELSE IF StatusArm(r.status) = "NOT_MODIFIED"
          THEN \E read_ok \in SnapshotReads(snapshot) :
                 IF read_ok
                 THEN /\ content' = ReadSnapshot(snapshot)
                      /\ pc' = "grep"
                      /\ outcome' = outcome
                 ELSE /\ Fail
                      /\ content' = content
          ELSE /\ Fail
               /\ content' = content
  /\ UNCHANGED <<args, files, digest_locals, grep_locals, asn_locals, prev>>

\* FetchPrimary with one more attempt after a primary request that failed
FetchPrimary_OneRetry ==
  \/ FetchPrimaryFrom(PrimaryResponses)
  \/ /\ pc = "done"
     /\ outcome = "failed"
     /\ log = <<"GET primary">>
     /\ pc' = "fetch"
     /\ outcome' = "running"
     /\ UNCHANGED <<args, files, primary_locals, digest_locals, grep_locals,
                    asn_locals, log, prev>>

FetchPrimary == FetchPrimaryFrom(PrimaryResponses)

\* lines 60-67: the digest companion's text and the digest of the body
FetchDigest ==
  /\ pc = "digest"
  /\ \E r \in DigestResponses(content) :
       /\ log' = Append(log, "GET digest")
       /\ sha256_status' = r.status
       /\ IF r.send_ok /\ r.text_ok
          THEN /\ sha256_content' = r.text
               /\ expected_hash' = ExpectedHash(r.text)
               /\ calculated_hash' = Sha256Hex(content)
               /\ pc' = "verify"
               /\ outcome' = outcome
          ELSE /\ UNCHANGED <<sha256_content, expected_hash, calculated_hash>>
               /\ Fail
  /\ UNCHANGED <<args, files, primary_locals, grep_locals, asn_locals, prev>>

\* HashAccepted with a companion that holds no token taken for a match
HashAccepted_EmptyPasses(calculated, expected) ==
  expected = <<>> \/ calculated = expected

\* line 69, negated: the download is accepted
HashAccepted(calculated, expected) == calculated = expected

\* lines 69-81: exit on a mismatch; else save the body as the snapshot and
\* leave the arm, whose locals go out of scope
VerifyAndSave ==
  /\ pc = "verify"
  /\ IF ~HashAccepted(calculated_hash, expected_hash)
     THEN /\ Fail
          /\ UNCHANGED <<snapshot, log, digest_locals>>
     ELSE /\ snapshot' = File(content)
          /\ log' = Append(log, "WRITE snapshot")
          /\ pc' = "grep"
          /\ outcome' = outcome
          /\ sha256_status' = 0
          /\ sha256_content' = <<>>
          /\ expected_hash' = <<>>
          /\ calculated_hash' = <<>>
  /\ UNCHANGED <<args, artifact, primary_locals, grep_locals, asn_locals, prev>>

\* WriteArtifact with the file opened for appending
WriteArtifact_Append(old, new) == File(old.data \o new)

\* fs::write(LOCAL_FILE_CIDR, &output_content): the file is created or
\* truncated, then holds the new bytes
WriteArtifact(old, new) == File(new)

\* lines 93-98 and 103-147: process_and_grep, then the test for ASN arguments
ProcessAndGrep ==
  /\ pc = "grep"
  /\ IF ~ValidUtf8(content)
     THEN /\ Fail
          /\ UNCHANGED <<artifact, grep_locals, log>>
     ELSE LET g == Grep(content, country_codes)
              rows == SummaryRows(country_codes, g.country_counts)
          IN  /\ artifact' = WriteArtifact(artifact, JoinNl(g.filtered_lines))
              /\ log' = Append(log, "WRITE artifact")
              /\ summary' = rows
              /\ total' = SumRows(rows)
              /\ IF asn_numbers = <<>>
                 THEN pc' = "done" /\ outcome' = "ok"
                 ELSE pc' = "asn" /\ outcome' = outcome
  /\ UNCHANGED <<args, snapshot, primary_locals, digest_locals, asn_locals, prev>>

\* whether the loop goes on to the next target after this answer: only a
\* body that fails to arrive (`response.text().await?`) leaves the function
LoopContinues(r) == ~(r.send_ok /\ r.success /\ ~r.text_ok)

\* AsnFetch with each target's lines appended to the artifact as they come
AsnFetch_WritesAsItGoes ==
  /\ pc = "asn"
  /\ next_asn < Len(asn_numbers)
  /\ \E r \in AsnResponses :
       LET asn == asn_numbers[next_asn + 1]
           lines == Lines(r.text)
       IN  /\ asn_responses' = Append(asn_responses, r)
           /\ next_asn' = next_asn + 1
           /\ IF ~LoopContinues(r)
              THEN /\ Fail
                   /\ log' = Append(log, "GET asn")
                   /\ UNCHANGED <<all_asn_blocks, asn_counts, artifact>>
              ELSE /\ UNCHANGED <<pc, outcome>>
                   /\ IF r.send_ok /\ r.success
                      THEN /\ all_asn_blocks' = all_asn_blocks \o TrimmedNonEmpty(lines)
                           /\ asn_counts' = Insert(asn_counts, asn, Len(lines))
                           /\ artifact' = File(Appended(ReadToStringOrEmpty(artifact),
                                                        TrimmedNonEmpty(lines)))
                           /\ log' = log \o <<"GET asn", "APPEND artifact">>
                      ELSE /\ log' = Append(log, "GET asn")
                           /\ UNCHANGED <<all_asn_blocks, asn_counts, artifact>>
  /\ UNCHANGED <<args, snapshot, primary_locals, digest_locals, grep_locals,
                 existing_content, asn_summary, prev>>

\* lines 158-191: one turn of the loop over asn_numbers
AsnFetch ==
  /\ pc = "asn"
  /\ next_asn < Len(asn_numbers)
  /\ \E r \in AsnResponses :
       LET asn == asn_numbers[next_asn + 1]
           lines == Lines(r.text)
       IN  /\ log' = Append(log, "GET asn")
           /\ asn_responses' = Append(asn_responses, r)
           /\ next_asn' = next_asn + 1
           /\ IF ~LoopContinues(r)
              THEN /\ Fail
                   /\ UNCHANGED <<all_asn_blocks, asn_counts>>
              ELSE /\ UNCHANGED <<pc, outcome>>
                   /\ IF r.send_ok /\ r.success
                      THEN /\ all_asn_blocks' = all_asn_blocks \o TrimmedNonEmpty(lines)
                           /\ asn_counts' = Insert(asn_counts, asn, Len(lines))
                      ELSE UNCHANGED <<all_asn_blocks, asn_counts>>
  /\ UNCHANGED <<args, files, primary_locals, digest_locals, grep_locals,
                 existing_content, asn_summary, prev>>

\* AsnAppend with the append made as soon as one target has been taken
AsnAppend_AfterFirst ==
  /\ pc = "asn"
  /\ next_asn >= 1
  /\ IF all_asn_blocks # <<>>
     THEN /\ existing_content' = ReadToStringOrEmpty(artifact)
          /\ artifact' = File(Appended(ReadToStringOrEmpty(artifact), all_asn_blocks))
          /\ log' = Append(log, "APPEND artifact")
          /\ asn_summary' = SummaryRows(asn_numbers, asn_counts)
     ELSE UNCHANGED <<artifact, existing_content, asn_summary, log>>
  /\ pc' = "done"
  /\ outcome' = "ok"
  /\ UNCHANGED <<args, snapshot, primary_locals, digest_locals, grep_locals,
                 next_asn, all_asn_blocks, asn_counts, asn_responses, prev>>

\* lines 193-217: after the loop, append the blocks and print the summary
AsnAppend ==
  /\ pc = "asn"
  /\ next_asn = Len(asn_numbers)
  /\ IF all_asn_blocks # <<>>
     THEN /\ existing_content' = ReadToStringOrEmpty(artifact)
          /\ artifact' = File(Appended(ReadToStringOrEmpty(artifact), all_asn_blocks))
          /\ log' = Append(log, "APPEND artifact")
          /\ asn_summary' = SummaryRows(asn_numbers, asn_counts)
     ELSE UNCHANGED <<artifact, existing_content, asn_summary, log>>
  /\ pc' = "done"
  /\ outcome' = "ok"
  /\ UNCHANGED <<args, snapshot, primary_locals, digest_locals, grep_locals,
                 next_asn, all_asn_blocks, asn_counts, asn_responses, prev>>

Next ==
  \/ FetchPrimary
  \/ FetchDigest
  \/ VerifyAndSave
  \/ ProcessAndGrep
  \/ AsnFetch
  \/ AsnAppend

Spec == Init /\ [][Next]_vars

\* ------------------------------------------- process_asn_data on its own
\* artifacts process_asn_data may find: none, an empty one, ones that end
\* in no, one or two line separators, one that is not UTF-8
MergeArtifacts ==
  { Missing, File(<<>>), File(<<"1">>), File(<<"1", NL, "2">>),
    File(<<"1", NL>>), File(<<"1", NL, NL>>), File(<<BAD, NL>>) }

InitMerge ==
  /\ country_args = << <<"D">> >>
  /\ asn_numbers \in AsnArgs \ {<<>>}
  /\ snapshot = Missing
  /\ artifact \in MergeArtifacts
  /\ prev = NoRun
  /\ pc = "asn"
  /\ outcome = "running"
  /\ if_modified_since = FALSE
  /\ primary_status = 0
  /\ content = <<>>
  /\ sha256_status = 0
  /\ sha256_content = <<>>
  /\ expected_hash = <<>>
  /\ calculated_hash = <<>>
  /\ summary = <<>>
  /\ total = 0
  /\ next_asn = 0
  /\ all_asn_blocks = <<>>
  /\ asn_counts = EmptyCounts
  /\ existing_content = <<>>
  /\ asn_summary = <<>>
  /\ asn_responses = <<>>
  /\ log = <<>>

NextMerge ==
  \/ AsnFetch
  \/ AsnAppend

MergeSpec == InitMerge /\ [][NextMerge]_vars

\* --------------------------------- runs repeated on an unchanged feed
\* bodies the remote feed may hold when the first run asks
RerunFeeds ==
  { <<"1", SP, "D", NL, "2", SP, "S">>, <<"2", SP, "S", NL, "1", SP, "D", NL>> }

\* what the first run is answered, and what a later one is: the feed has
\* not changed, so no later answer is a 200
FirstAnswers == PrimaryResponsesOf(RerunFeeds)
LaterAnswers == {r \in PrimaryResponsesOf({}) : r.status # 200}

FetchPrimaryAgain == FetchPrimaryFrom(IF prev.ran THEN LaterAnswers ELSE FirstAnswers)

\* the program is started again with the same arguments; the files are as
\* the run before left them
Rerun ==
  /\ pc = "done"
  /\ prev' = IF outcome = "ok"
             THEN [ran |-> TRUE, outcome |-> "ok", artifact |-> artifact,
                   asn_responses |-> asn_responses]
             ELSE [ran |-> TRUE, outcome |-> "failed", artifact |-> Missing,
                   asn_responses |-> <<>>]
  /\ pc' = "fetch"
  /\ outcome' = "running"
  /\ if_modified_since' = FALSE
  /\ primary_status' = 0
  /\ content' = <<>>
  /\ sha256_status' = 0
  /\ sha256_content' = <<>>
  /\ expected_hash' = <<>>
  /\ calculated_hash' = <<>>
  /\ summary' = <<>>
  /\ total' = 0
  /\ next_asn' = 0
  /\ all_asn_blocks' = <<>>
  /\ asn_counts' = EmptyCounts
  /\ existing_content' = <<>>
  /\ asn_summary' = <<>>
  /\ asn_responses' = <<>>
  /\ log' = <<>>
  /\ UNCHANGED <<args, files>>

NextRerun ==
  \/ FetchPrimaryAgain
  \/ FetchDigest
  \/ VerifyAndSave
  \/ ProcessAndGrep
  \/ AsnFetch
  \/ AsnAppend
  \/ Rerun

\* one country code, which is all a repeated run needs
InitRerun ==
  /\ Init
  /\ Len(country_args) = 1

RerunSpec == InitRerun /\ [][NextRerun]_vars

\* ================================================================== claims
IsPrefix(p, s) == Len(p) <= Len(s) /\ SubSeq(s, 1, Len(p)) = p

\* t is the first whitespace-delimited token of text: only whitespace comes
\* before it, it holds none, and whitespace or the end of the text follows
IsFirstToken(t, text) ==
  /\ t # <<>>
  /\ \A k \in 1..Len(t) : ~IsWhitespace(t[k])
  /\ \E a \in 0..Len(text) :
       /\ \A k \in 1..a : IsWhitespace(text[k])
       /\ a + Len(t) <= Len(text)
       /\ SubSeq(text, a + 1, a + Len(t)) = t
       /\ (a + Len(t) = Len(text) \/ IsWhitespace(text[a + Len(t) + 1]))

SnapshotWritten == snapshot' # snapshot \/ (log' # log /\ Last(log') = "WRITE snapshot")

\* C1: the snapshot is written only in the step that found the digest of
\* the downloaded body equal to the first token of the companion's text,
\* and then with that body; no step before it touches either file; a step
\* that finds them different ends the run in failure with both files as
\* they were.
C1_IntegrityGate ==
  [][ /\ SnapshotWritten =>
           /\ pc = "verify"
           /\ IsFirstToken(Sha256Hex(content), sha256_content)
           /\ snapshot' = File(content)
      /\ pc \in {"fetch", "digest"} => UNCHANGED files
      /\ (pc = "verify" /\ ~IsFirstToken(Sha256Hex(content), sha256_content)) =>
           /\ pc' = "done"
           /\ outcome' = "failed"
           /\ UNCHANGED files
    ]_vars

\* a run that ended on a digest mismatch
C1_Witness ==
  /\ pc = "done"
  /\ outcome = "failed"
  /\ log = <<"GET primary", "GET digest">>
  /\ sha256_content # <<>>
  /\ expected_hash # <<>>
  /\ calculated_hash # expected_hash

\* C2: when the digest companion cannot be reached (no status arrives) or
\* answers with a status that is not a success, the run fails and neither
\* file changes, whatever text the answer holds.
C2_DigestFailureIsFatal ==
  [][ /\ (pc = "digest" /\ sha256_status' # 200) =>
           /\ UNCHANGED files
           /\ sha256_status' = 0 => pc' = "done"
           /\ pc' = "done" => outcome' = "failed"
      /\ (pc = "verify" /\ sha256_status # 200) =>
           /\ pc' = "done"
           /\ outcome' = "failed"
           /\ UNCHANGED files
    ]_vars

\* C3: a primary request that errors, or whose status is neither 200 nor
\* 304, ends the run in failure at once: both files are as before and the
\* only request the run has sent is the primary one.
C3_PrimaryFailure ==
  [][ (log' # <<>> /\ primary_status' \notin {200, 304}) =>
        /\ pc' = "done"
        /\ outcome' = "failed"
        /\ log' = <<"GET primary">>
        /\ UNCHANGED files
    ]_vars

\* a run that ended on a 404 from the primary feed
C3_Witness ==
  /\ pc = "done"
  /\ outcome = "failed"
  /\ primary_status = 404
  /\ log = <<"GET primary">>

\* what the filter step writes for the resolved bytes and the codes
GrepOutput == JoinNl(Grep(content, country_codes).filtered_lines)

\* C5: once the filter step has written the artifact, the per-code counts
\* of the summary add up to the number of lines it wrote.
C5_SummarySumsToLines ==
  (log # <<>> /\ Last(log) = "WRITE artifact") =>
    SumRows(summary) = Len(Lines(artifact.data))

\* the blocks of the answers that arrived whole, in request order
RECURSIVE BlocksOf(_)
BlocksOf(responses) ==
  IF responses = <<>> THEN <<>>
  ELSE (IF Head(responses).send_ok /\ Head(responses).success /\ Head(responses).text_ok
        THEN TrimmedNonEmpty(Lines(Head(responses).text))
        ELSE <<>>) \o BlocksOf(Tail(responses))

IsSuffix(p, s) == Len(p) <= Len(s) /\ SubSeq(s, Len(s) - Len(p) + 1, Len(s)) = p

\* C7: whatever goes wrong with one ASN target, a run whose filter step
\* wrote the artifact ends with every target fetched and with the lines of
\* every target that answered at the end of the artifact.
C7_AsnFailureIsolated ==
  (pc = "done" /\ InSeq("WRITE artifact", log)) =>
    /\ Len(asn_responses) = Len(asn_numbers)
    /\ IsSuffix(JoinNl(BlocksOf(asn_responses)), artifact.data)

\* C8: all through the ASN step the artifact starts with the bytes the
\* filter step wrote: they are what the step finds, and every step of it
\* leaves them at the front of the file.
C8_AppendIsAdditive ==
  [][ pc = "asn" =>
        /\ artifact = File(GrepOutput)
        /\ artifact'.exists
        /\ IsPrefix(artifact.data, artifact'.data)
    ]_vars

\* the ASN step has appended to a filter output that is not empty
C8_Witness ==
  /\ pc = "done"
  /\ Last(log) = "APPEND artifact"
  /\ GrepOutput # <<>>
  /\ Len(artifact.data) > Len(GrepOutput)

\* C9: in a run whose primary answer is 304 the snapshot never changes,
\* the digest companion is not asked, and what the filter step gets is the
\* snapshot's bytes.
C9_NotModifiedUsesSnapshot ==
  [][ primary_status' = 304 =>
        /\ snapshot' = snapshot
        /\ ~InSeq("GET digest", log')
        /\ ~InSeq("WRITE snapshot", log')
        /\ (pc' \in {"grep", "asn"} \/ InSeq("WRITE artifact", log')) =>
             (snapshot'.exists /\ content' = snapshot'.data)
    ]_vars

\* a 304 run that filtered a snapshot ending in a line separator
C9_Witness ==
  /\ pc = "done"
  /\ outcome = "ok"
  /\ primary_status = 304
  /\ content # <<>>
  /\ Last(content) = NL
  /\ InSeq("WRITE artifact", log)

\* whether the run got as far as process_and_grep
ReachedFilter ==
  \/ pc \in {"grep", "asn"}
  \/ /\ pc = "done"
     /\ \/ InSeq("WRITE artifact", log)
        \/ InSeq("WRITE snapshot", log)
        \/ (primary_status = 304 /\ snapshot.exists /\ content = snapshot.data)

\* the artifact as the feed bytes, the codes and the ASN answers fix it
ArtifactOfRun ==
  LET blocks == BlocksOf(asn_responses)
  IN  IF outcome = "ok" /\ blocks # <<>>
      THEN File((IF GrepOutput # <<>> THEN GrepOutput \o <<NL>> ELSE <<>>)
                  \o JoinNl(blocks))
      ELSE File(GrepOutput)

\* C10, as claimed: after any run that reached the filter step the
\* artifact is fixed by the feed bytes, the codes and the ASN answers.
C10_ReplacedWheneverReached ==
  (pc = "done" /\ ReachedFilter) => artifact = ArtifactOfRun

\* C10, amended: after any run whose filter step decoded the feed, and so
\* wrote the artifact, the artifact is fixed by the feed bytes, the codes
\* and the ASN answers; nothing of its earlier content is left.
C10_ReplacedWhenWritten ==
  (pc = "done" /\ InSeq("WRITE artifact", log)) => artifact = ArtifactOfRun

\* a run that found an artifact, selected nothing and left the file empty
C10_Witness ==
  /\ pc = "done"
  /\ outcome = "ok"
  /\ InSeq("WRITE artifact", log)
  /\ GrepOutput = <<>>
  /\ artifact = File(<<>>)
  /\ content # <<>>

\* C4: a run that ends well on a 304, after a run with the same arguments
\* that ended well and got the same ASN answers, leaves the artifact that
\* run left.
C4_SecondRunSameArtifact ==
  (/\ pc = "done"
   /\ outcome = "ok"
   /\ primary_status = 304
   /\ prev.ran
   /\ prev.outcome = "ok"
   /\ asn_responses = prev.asn_responses) => artifact = prev.artifact

\* a second run on a 304 that wrote filter lines and ASN blocks again
C4_Witness ==
  /\ pc = "done"
  /\ outcome = "ok"
  /\ primary_status = 304
  /\ prev.ran
  /\ prev.outcome = "ok"
  /\ asn_responses = prev.asn_responses
  /\ GrepOutput # <<>>
  /\ Last(log) = "APPEND artifact"

\* the step of process_asn_data that writes the artifact
AppendStep == pc = "asn" /\ log' # log /\ Last(log') = "APPEND artifact"

\* the artifact as that step reads it: empty when missing or unreadable
ExistingRead == IF artifact.exists /\ ValidUtf8(artifact.data) THEN artifact.data ELSE <<>>

\* the ASN lines joined by single separators
AsnBlock == JoinNl(BlocksOf(asn_responses))

\* C6, as claimed: the append step puts one separator before the block
\* when the content it read does not end in one, an empty or missing
\* artifact included, and none when it does.
C6_SeparatorUnlessEndsInOne ==
  [][ AppendStep =>
        artifact'.data =
          ExistingRead
            \o (IF ExistingRead = <<>> \/ Last(ExistingRead) # NL THEN <<NL>> ELSE <<>>)
            \o AsnBlock
    ]_vars

\* C6, amended: the append step puts one separator before the block when
\* the content it read is not empty and does not end in one, and none when
\* that content is empty (the artifact is empty, missing or unreadable) or
\* ends in one; the block is the ASN lines joined by single separators and
\* ends in none.
C6_SeparatorRule ==
  [][ AppendStep =>
        /\ artifact'.data =
             ExistingRead
               \o (IF ExistingRead # <<>> /\ Last(ExistingRead) # NL THEN <<NL>> ELSE <<>>)
               \o AsnBlock
        /\ AsnBlock # <<>>
        /\ Last(AsnBlock) # NL
    ]_vars

\* blocks were appended to an artifact that ended in a separator
C6_Witness ==
  /\ pc = "done"
  /\ Last(log) = "APPEND artifact"
  /\ existing_content # <<>>
  /\ Last(existing_content) = NL
  /\ IsPrefix(existing_content, artifact.data)
  /\ Len(artifact.data) > Len(existing_content)

\* a feed line of exactly two columns whose second is one of the codes
IsSelectedLine(line) ==
  /\ Len(SplitWhitespace(line)) = 2
  /\ \E k \in 1..Len(country_codes) : country_codes[k] = SplitWhitespace(line)[2]

FirstColumns(ls) == [k \in 1..Len(ls) |-> SplitWhitespace(ls[k])[1]]

\* the first columns of the selected lines, in feed order
SelectedCidrs == FirstColumns(SelectSeq(Lines(content), IsSelectedLine))

FilterWrites == log' # log /\ Last(log') = "WRITE artifact"

\* C11: what the filter step writes is the first columns of the feed lines
\* that have exactly two columns and a second column equal to one of the
\* upper-cased codes, in feed order; a decoded feed never makes the step
\* fail, whatever the column counts of its lines.
C11_SelectionAndOrder ==
  [][ /\ FilterWrites => artifact' = File(JoinNl(SelectedCidrs))
      /\ (pc = "grep" /\ ValidUtf8(content)) => (FilterWrites /\ outcome' # "failed")
    ]_vars

\* two lines were written from a feed that also holds a line of another
\* column count
C11_Witness ==
  /\ log # <<>>
  /\ Last(log) = "WRITE artifact"
  /\ Len(Lines(artifact.data)) = 2
  /\ \E k \in 1..Len(Lines(content)) : Len(SplitWhitespace(Lines(content)[k])) # 2

\* how many feed lines are records of two columns bearing the code
RecordsBearing(code) ==
  Cardinality({k \in 1..Len(Lines(content)) :
                 /\ Len(SplitWhitespace(Lines(content)[k])) = 2
                 /\ SplitWhitespace(Lines(content)[k])[2] = code})

\* C12: once the filter step has written, the summary has one row for
\* every entry of the list of requested codes, in list order, bearing the
\* number of records of that code: 0 for a code no record bears.
C12_EveryCodeReported ==
  InSeq("WRITE artifact", log) =>
    /\ Len(summary) = Len(country_codes)
    /\ \A k \in 1..Len(country_codes) :
         /\ summary[k][1] = country_codes[k]
         /\ summary[k][2] = RecordsBearing(country_codes[k])
         /\ RecordsBearing(country_codes[k]) = 0 => summary[k][2] = 0

\* a summary with a row of 0 for a code no record bears, after a row that
\* counted a record
C12_Witness ==
  /\ InSeq("WRITE artifact", log)
  /\ Len(summary) = 2
  /\ summary[1][2] > 0
  /\ summary[2][2] = 0
  /\ RecordsBearing(country_codes[2]) = 0

\* the k-th ASN request was answered in full / was sent and failed
Succeeded(k) ==
  /\ k <= Len(asn_responses)
  /\ asn_responses[k].send_ok
  /\ asn_responses[k].success
  /\ asn_responses[k].text_ok

Failed(k) == k <= Len(asn_responses) /\ ~Succeeded(k)

\* the requests for the id that were answered in full
SucceededFor(id) == {k \in 1..Len(asn_responses) : asn_numbers[k] = id /\ Succeeded(k)}

\* the count the fetch loop holds for an id: the raw line count of the
\* last answer it got in full, 0 when it got none
CountHeldFor(id) ==
  IF SucceededFor(id) = {} THEN 0
  ELSE LET k == CHOOSE j \in SucceededFor(id) : \A i \in SucceededFor(id) : i <= j
       IN  Len(Lines(asn_responses[k].text))

AsnSummaryPrinted == log # <<>> /\ Last(log) = "APPEND artifact"

\* C13, as claimed: a failed target adds no line to the blocks, and the
\* ASN summary has no row bearing the id of a target none of whose
\* fetches succeeded.
C13_FailedTargetOmitted ==
  /\ all_asn_blocks = BlocksOf(asn_responses)
  /\ AsnSummaryPrinted =>
       \A k \in 1..Len(asn_numbers) :
         (Failed(k) /\ SucceededFor(asn_numbers[k]) = {}) =>
           \A j \in 1..Len(asn_summary) : asn_summary[j][1] # asn_numbers[k]

\* C13, amended: a failed target adds no line to the blocks and no count
\* to the counts the loop records, but the ASN summary, when it is
\* printed, has a row for every target entry, failed ones included, with
\* the count held for its id, which is 0 when no fetch of that id
\* succeeded.
C13_FailedTargetReportedAsZero ==
  /\ all_asn_blocks = BlocksOf(asn_responses)
  /\ DOMAIN asn_counts = {asn_numbers[k] : k \in {j \in 1..Len(asn_responses) : Succeeded(j)}}
  /\ asn_summary # <<>> <=> AsnSummaryPrinted
  /\ AsnSummaryPrinted =>
       /\ Len(asn_summary) = Len(asn_numbers)
       /\ \A k \in 1..Len(asn_numbers) :
            asn_summary[k] = <<asn_numbers[k], CountHeldFor(asn_numbers[k])>>

\* a summary printed after the first target failed and the second, of
\* another id, gave lines: the failed one has a row of 0
C13_Witness ==
  /\ AsnSummaryPrinted
  /\ Len(asn_numbers) = 2
  /\ Failed(1)
  /\ Succeeded(2)
  /\ asn_numbers[1] # asn_numbers[2]
  /\ asn_summary[1] = <<asn_numbers[1], 0>>
  /\ asn_summary[2][2] > 0

\* the raw number of lines of a text: its separators, and one more for an
\* end that no separator closes
RawLineCount(text) ==
  Cardinality({k \in 1..Len(text) : text[k] = NL})
    + (IF text # <<>> /\ Last(text) # NL THEN 1 ELSE 0)

\* a line of the text holds nothing but whitespace
HasBlankLine(text) ==
  \E k \in 1..Len(Lines(text)) :
    \A i \in 1..Len(Lines(text)[k]) : IsWhitespace(Lines(text)[k][i])

\* a step of the loop that got a target's answer in full
FetchedInFull ==
  /\ pc = "asn"
  /\ Len(asn_responses') = Len(asn_responses) + 1
  /\ Last(asn_responses').send_ok
  /\ Last(asn_responses').success
  /\ Last(asn_responses').text_ok

\* the lines that step added to the blocks
Contributed == SubSeq(all_asn_blocks', Len(all_asn_blocks) + 1, Len(all_asn_blocks'))

\* C14: for a target fetched in full the count recorded is the raw number
\* of lines of the answer; the lines it adds are not empty and carry no
\* whitespace at their ends; so the count is at least the number of lines
\* added, and equal to it exactly when the answer has no blank line.
C14_RawCountAtLeastEmitted ==
  [][ FetchedInFull =>
        LET text == Last(asn_responses').text
            count == asn_counts'[asn_numbers[next_asn']]
        IN  /\ IsPrefix(all_asn_blocks, all_asn_blocks')
            /\ count = RawLineCount(text)
            /\ \A k \in 1..Len(Contributed) :
                 /\ Contributed[k] # <<>>
                 /\ ~IsWhitespace(Head(Contributed[k]))
                 /\ ~IsWhitespace(Last(Contributed[k]))
            /\ count >= Len(Contributed)
            /\ count = Len(Contributed) <=> ~HasBlankLine(text)
    ]_vars

\* a target whose answer has a blank line: its count exceeds its lines
C14_Witness ==
  /\ Succeeded(1)
  /\ HasBlankLine(asn_responses[1].text)
  /\ all_asn_blocks # <<>>
  /\ asn_counts[asn_numbers[1]] > Len(all_asn_blocks)
  /\ Len(asn_responses) = 1

\* every ASN answer so far failed or holds nothing but whitespace
NoAsnLines ==
  \A k \in 1..Len(asn_responses) :
    \/ Failed(k)
    \/ \A i \in 1..Len(asn_responses[k].text) : IsWhitespace(asn_responses[k].text[i])

\* C15: as long as the ASN step has collected no line (no target was
\* given, or every target so far failed or gave blank lines only), the
\* artifact is what the filter step wrote and nothing was appended.
C15_UntouchedWithoutAsnLines ==
  (InSeq("WRITE artifact", log) /\ NoAsnLines) =>
    /\ artifact = File(JoinNl(SelectedCidrs))
    /\ ~InSeq("APPEND artifact", log)

\* a run that ended well after one target failed and another gave blank
\* lines only: the artifact holds the filter's lines
C15_Witness ==
  /\ pc = "done"
  /\ outcome = "ok"
  /\ Len(asn_responses) = 2
  /\ Failed(1)
  /\ Succeeded(2)
  /\ NoAsnLines
  /\ artifact.data # <<>>
  /\ artifact = File(JoinNl(SelectedCidrs))

\* the lines of a text that are not blank, trimmed, in the text's order
NonBlankTrimmed(text) ==
  LET kept == SelectSeq(Lines(text), LAMBDA l : \E i \in 1..Len(l) : ~IsWhitespace(l[i]))
  IN  [k \in 1..Len(kept) |-> Trim(kept[k])]

\* those lines for every answer got in full, target after target
RECURSIVE AggregateOf(_)
AggregateOf(responses) ==
  IF responses = <<>> THEN <<>>
  ELSE AggregateOf(Front(responses))
         \o (IF Last(responses).send_ok /\ Last(responses).success /\ Last(responses).text_ok
             THEN NonBlankTrimmed(Last(responses).text)
             ELSE <<>>)

\* C16: what the append step adds to the artifact is, after at most one
\* separator, the non-blank trimmed lines of every target fetched in full,
\* target after target in the order given and line after line in source
\* order, every occurrence of a line kept.
C16_AggregationOrder ==
  [][ AppendStep =>
        /\ Len(asn_responses) = Len(asn_numbers)
        /\ \E sep \in {<<>>, <<NL>>} :
             artifact'.data = artifact.data \o sep \o JoinNl(AggregateOf(asn_responses))
    ]_vars

\* the same target given twice gave two lines each time: the block holds
\* them twice, in source order
C16_Witness ==
  /\ AsnSummaryPrinted
  /\ Len(asn_numbers) = 2
  /\ asn_numbers[1] = asn_numbers[2]
  /\ Succeeded(1)
  /\ Succeeded(2)
  /\ all_asn_blocks = << <<"8">>, <<"9">>, <<"8">>, <<"9">> >>
  /\ IsSuffix(<<"8", NL, "9", NL, "8", NL, "9">>, artifact.data)

\* how many times an event is in the log
Count(event, events) == Cardinality({k \in 1..Len(events) : events[k] = event})

Requests == Count("GET primary", log) + Count("GET digest", log) + Count("GET asn", log)

\* the requests of a run so far: the primary one first and once; the
\* digest one at most once, second, after a 200; one per target entry taken
SingleAttempts ==
  /\ Count("GET primary", log) <= 1
  /\ (pc # "fetch") => (log # <<>> /\ log[1] = "GET primary")
  /\ Count("GET digest", log) <= 1
  /\ InSeq("GET digest", log) => (primary_status = 200 /\ log[2] = "GET digest")
  /\ Count("GET asn", log) = next_asn
  /\ next_asn <= Len(asn_numbers)
  /\ Requests <= 2 + Len(asn_numbers)

\* an upper bound on the steps a run has yet to take
StepsLeft ==
  CASE pc = "fetch" -> 5 + Len(asn_numbers)
    [] pc = "digest" -> 4 + Len(asn_numbers)
    [] pc = "verify" -> 3 + Len(asn_numbers)
    [] pc = "grep" -> 2 + Len(asn_numbers)
    [] pc = "asn" -> 1 + Len(asn_numbers) - next_asn
    [] OTHER -> 0

\* C17: at every point of a run each source has been asked at most once
\* (the primary feed exactly once as soon as the run has started, the
\* digest companion only after a 200, each target entry once in turn), so
\* at most 2 + (number of targets) requests are sent; every step brings
\* the end of the run nearer, so no step is gone through again and a run
\* is over after at most 5 + (number of targets) steps.
C17_SingleAttempt ==
  /\ []SingleAttempts
  /\ [][StepsLeft' < StepsLeft /\ StepsLeft' >= 0]_vars

\* a run that ended having sent all of its 2 + 2 requests
C17_Witness ==
  /\ pc = "done"
  /\ Len(asn_numbers) = 2
  /\ Requests = 4
  /\ Count("GET primary", log) = 1
  /\ Count("GET digest", log) = 1
  /\ Count("GET asn", log) = 2

\* every a in the log comes before every b in it
Before(a, b) ==
  \A i, j \in 1..Len(log) : (log[i] = a /\ log[j] = b) => i < j

\* the order of the writes and requests of a run so far
WriteOrder ==
  /\ Count("WRITE snapshot", log) <= 1
  /\ Count("WRITE artifact", log) <= 1
  /\ Count("APPEND artifact", log) <= 1
  /\ Before("WRITE snapshot", "WRITE artifact")
  /\ Before("WRITE artifact", "GET asn")
  /\ InSeq("GET asn", log) => InSeq("WRITE artifact", log)
  /\ InSeq("APPEND artifact", log) =>
       /\ Last(log) = "APPEND artifact"
       /\ InSeq("WRITE artifact", log)
       /\ Count("GET asn", log) = Len(asn_numbers)
  /\ InSeq("WRITE artifact", log) =>
       /\ primary_status \in {200, 304}
       /\ primary_status = 200 => InSeq("WRITE snapshot", log)
       /\ snapshot.exists
       /\ content = snapshot.data

\* a file changes only in a step that logs the write
WritesAreLogged ==
  /\ snapshot' # snapshot => log' = Append(log, "WRITE snapshot")
  /\ artifact' # artifact =>
       \/ log' = Append(log, "WRITE artifact")
       \/ log' = Append(log, "APPEND artifact")

\* C18: in a run the snapshot is written, if at all, before the filter
\* step rewrites the artifact; that comes before every ASN request; the
\* ASN step writes the artifact at most once, last, after every target
\* has been taken; and the artifact is written only once the content is
\* resolved, as a verified download saved as the snapshot or as the
\* snapshot itself on a 304.
C18_WriteOrdering ==
  /\ []WriteOrder
  /\ [][WritesAreLogged]_vars

\* a run that went through every write and request, in order
C18_Witness ==
  log = <<"GET primary", "GET digest", "WRITE snapshot", "WRITE artifact",
          "GET asn", "GET asn", "APPEND artifact">>

\* the artifact holds the filter's lines and nothing else
HoldsFilterOutput == artifact = File(JoinNl(SelectedCidrs))

\* the artifact holds the filter's lines, then the lines of every target
HoldsFilterOutputAndWholeBlock ==
  /\ Len(asn_responses) = Len(asn_numbers)
  /\ AggregateOf(asn_responses) # <<>>
  /\ artifact =
       File((IF SelectedCidrs # <<>> THEN JoinNl(SelectedCidrs) \o <<NL>> ELSE <<>>)
              \o JoinNl(AggregateOf(asn_responses)))

\* C19: up to the filter's write no step changes the artifact; from then
\* on, and so wherever the run ends, the artifact holds either the
\* filter's lines alone or those lines followed by the lines of every
\* target; a run that is ended by a target's answer holds the filter's
\* lines alone, whatever earlier targets gave.
C19_NoPartialAsnBlock ==
  /\ [][~InSeq("WRITE artifact", log') => artifact' = artifact]_vars
  /\ [](InSeq("WRITE artifact", log) =>
          /\ HoldsFilterOutput \/ HoldsFilterOutputAndWholeBlock
          /\ (outcome = "failed" /\ asn_responses # <<>>) => HoldsFilterOutput)

\* the second target's answer ended the run after the first gave lines:
\* the artifact holds the filter's lines alone
C19_Witness ==
  /\ pc = "done"
  /\ outcome = "failed"
  /\ Len(asn_responses) = 2
  /\ Succeeded(1)
  /\ all_asn_blocks # <<>>
  /\ SelectedCidrs # <<>>
  /\ HoldsFilterOutput

\* C20: a 304 leaves both files as they are; when there is no snapshot to
\* read (none was there, so no header was sent, or the one that was there
\* cannot be read) the run fails at once, with no content and no further
\* request or write; the filter gets nothing but the snapshot's bytes.
C20_NotModifiedWithoutSnapshot ==
  /\ [][ (pc = "fetch" /\ primary_status' = 304) =>
           /\ UNCHANGED files
           /\ ~snapshot.exists => pc' = "done"
           /\ pc' = "done" => (outcome' = "failed" /\ content' = <<>>)
           /\ pc' # "done" => (pc' = "grep" /\ snapshot.exists /\ content' = snapshot.data)
       ]_vars
  /\ []((primary_status = 304 /\ (~snapshot.exists \/ content # snapshot.data)) =>
          /\ pc = "done"
          /\ outcome = "failed"
          /\ log = <<"GET primary">>)

\* a 304 came though no snapshot was there and no header was sent: the
\* run failed and the artifact found is still in place
C20_Witness ==
  /\ pc = "done"
  /\ outcome = "failed"
  /\ primary_status = 304
  /\ ~if_modified_since
  /\ ~snapshot.exists
  /\ artifact = File(<<"9">>)
  /\ log = <<"GET primary">>

====
